---------------------------- MODULE Spec2Model ----------------------------
(***************************************************************************)
(* ito: a URL shortener (src/main.rs).  One SQLite table                   *)
(*   links(id INTEGER PRIMARY KEY AUTOINCREMENT, alias, target_url)        *)
(* with a unique index on alias, an r2d2 connection pool shared by the     *)
(* handlers, and five axum routes.                                         *)
(*                                                                         *)
(* Every inbound request is one handler invocation.  A handler that uses   *)
(* the store takes three steps: pool.get(), its one SQL statement, and the *)
(* return that drops the pooled connection.  SQLite runs each statement    *)
(* atomically (one writer at a time on the database file), so a statement  *)
(* is one step of the model; handlers of different requests interleave     *)
(* between steps.                                                          *)
(*                                                                         *)
(* Not modelled: the wall-clock timeouts of pool.get() and of SQLite's     *)
(* busy handler, I/O failures of the database file, and template           *)
(* rendering (the template is not part of the source).  pool.get() is      *)
(* modelled as blocking until a connection is idle.                        *)
(***************************************************************************)
EXTENDS Integers, Sequences, FiniteSets, TLC

(* ------------------------------ bounds -------------------------------- *)

\* Number of requests served in one behaviour.
NumReqs == 3

\* Size of the connection pool.  r2d2's default is larger; it is scaled
\* down so that requests do contend for connections.
MaxSize == 2

(* --------------------------- status codes ----------------------------- *)

OK == 200
NO_CONTENT == 204
SEE_OTHER == 303
BAD_REQUEST == 400
NOT_FOUND == 404
UNPROCESSABLE_ENTITY == 422
INTERNAL_SERVER_ERROR == 500

(* ------------------------------ inputs -------------------------------- *)

ReqIds == 1..NumReqs

\* Path segments used as aliases.  "a" and "A" differ only in letter case;
\* "favicon.ico" is also the path of a fixed route.
Aliases == {"a", "A", "favicon.ico"}

\* Raw form values for target_url.
RawUrls == {"https://example.com", "https://example.org/x", "not a url"}

ParseError == "ParseError"

\* Url::parse followed by serialisation (Url::as_str / to_string), on the
\* inputs of the model: an absolute URL with an empty path gets the path
\* "/", an already serialised URL is kept, anything else is an error.
UrlParse(s) ==
  CASE s = "https://example.com"    -> "https://example.com/"
    [] s = "https://example.com/"   -> "https://example.com/"
    [] s = "https://example.org/x"  -> "https://example.org/x"
    [] OTHER                        -> ParseError

NoReq == [method |-> "", seg |-> "", id |-> 0, alias |-> "", target_url |-> ""]

\* Ids carried by DELETE /links/{id}.
DeleteIds == {1, 2}

\* The requests the model sends: GET /, GET /{seg}, POST /links with a form
\* body (every alias with one URL, alias "a" with every raw URL),
\* DELETE /links/{id}.
Requests ==
       {[NoReq EXCEPT !.method = "GET"]}
  \cup {[NoReq EXCEPT !.method = "GET", !.seg = s] : s \in Aliases}
  \cup {[NoReq EXCEPT !.method = "POST", !.seg = "links", !.alias = a,
                      !.target_url = "https://example.com"] : a \in Aliases}
  \cup {[NoReq EXCEPT !.method = "POST", !.seg = "links", !.alias = "a",
                      !.target_url = u] : u \in RawUrls}
  \cup {[NoReq EXCEPT !.method = "DELETE", !.seg = "links", !.id = i] : i \in DeleteIds}

(* ------------------------------ router -------------------------------- *)

\* The route table.  A static path wins over the /:alias parameter.  GET on
\* /links, a path registered for POST only, is answered by the framework
\* and reaches no handler; the model sends no such request.
Route(q) ==
  CASE q.method = "GET" /\ q.seg = ""               -> "root_handler"
    [] q.method = "GET" /\ q.seg = "favicon.ico"    -> "favicon"
    [] q.method = "GET" /\ q.seg = "links"          -> "method_not_allowed"
    [] q.method = "GET"                             -> "redirect_to_target"
    [] q.method = "POST" /\ q.seg = "links"         -> "create_link"
    [] q.method = "DELETE" /\ q.seg = "links"       -> "delete_link"
    [] OTHER                                        -> "not_found"

StoreHandlers == {"root_handler", "create_link", "delete_link", "redirect_to_target"}

\* Form<CreateLinkInput>: the body deserialises iff target_url parses as Url.
CreateLinkInput(q) == UrlParse(q.target_url) # ParseError

\* The status of axum's rejection of a form body that does not deserialise.
\* It is chosen by the axum release the build links (400 in the early 0.6
\* releases, 422 in the later ones); the source does not override it.
FormRejection == {BAD_REQUEST, UNPROCESSABLE_ENTITY}

(* ------------------------------- state -------------------------------- *)

VARIABLES
  links,     \* rows of table links: records [id, alias, target_url]
  seq,       \* sqlite_sequence entry of links: the largest id ever assigned
  idle,      \* idle connections in the pool
  reqs       \* per request: position, request, connection held, response

vars == <<links, seq, idle, reqs>>

NewReq == [pc |-> "new", req |-> NoReq, handler |-> "", conn |-> FALSE,
           sc |-> 0, location |-> "", body |-> <<>>]

Init ==
  /\ links = {}
  /\ seq = 0
  /\ idle = MaxSize
  /\ reqs = [r \in ReqIds |-> NewReq]

(* ----------------------------- SQL layer ------------------------------ *)

Ids(rows) == {l.id : l \in rows}

MaxOf(S) == IF S = {} THEN 0 ELSE CHOOSE x \in S : \A y \in S : y <= x

\* idx_links_alias: would a row with this alias break the unique index?
\* TEXT comparison is BINARY, hence case-sensitive.
UniqueViolationNone(rows, alias) == FALSE

UniqueViolation(rows, alias) == \E l \in rows : l.alias = alias

\* A plain INTEGER PRIMARY KEY: one more than the largest id in the table.
NextRowidNoAutoincrement(rows, s) == MaxOf(Ids(rows)) + 1

\* INTEGER PRIMARY KEY AUTOINCREMENT: one more than the largest id the
\* table ever held, which sqlite_sequence records.
NextRowid(rows, s) == MaxOf(Ids(rows) \cup {s}) + 1

\* INSERT INTO links (alias, target_url) VALUES (?1, ?2)
InsertRow(rows, id, alias, url) ==
  rows \cup {[id |-> id, alias |-> alias, target_url |-> url]}

\* DELETE FROM links WHERE id = ?
DeleteByIdUpTo(rows, id) == {l \in rows : l.id > id}

DeleteById(rows, id) == {l \in rows : l.id # id}

\* SELECT target_url FROM links WHERE alias = ?
FindByAliasNoCase(rows, alias) ==
  {l \in rows : l.alias = alias \/ {l.alias, alias} = {"a", "A"}}

FindByAlias(rows, alias) == {l \in rows : l.alias = alias}

\* SELECT id, alias, target_url from links: the statement has no ORDER BY,
\* so the rows come in an order SQL does not fix.
SelectAll(rows) ==
  {f \in [1..Cardinality(rows) -> rows] : \A l \in rows : \E i \in DOMAIN f : f[i] = l}

(* --------------------------- error mapping ---------------------------- *)

handle_sqlite_err_all500(err) == INTERNAL_SERVER_ERROR

handle_sqlite_err(err) ==
  CASE err = "ConstraintViolation" -> BAD_REQUEST
    [] err = "QueryReturnedNoRows" -> NOT_FOUND
    [] OTHER                       -> INTERNAL_SERVER_ERROR

(* ------------------- requests answered without the store --------------- *)

\* Request r arrives: requests are numbered in their order of arrival.
Arrives(r) ==
  /\ reqs[r].pc = "new"
  /\ \A p \in ReqIds : p < r => reqs[p].pc # "new"

\* The response of a request that never reaches the store.
Respond(r, q, h, sc) ==
  reqs' = [reqs EXCEPT ![r] = [@ EXCEPT !.pc = "ret", !.req = q, !.handler = h, !.sc = sc]]

\* GET /favicon.ico
favicon(r, q) ==
  /\ Arrives(r)
  /\ Route(q) = "favicon"
  /\ Respond(r, q, "favicon", NO_CONTENT)
  /\ UNCHANGED <<links, seq, idle>>

\* POST /links whose form body does not deserialise: the extractor rejects
\* the request and create_link does not run.
RejectForm(r, q) ==
  /\ Arrives(r)
  /\ Route(q) = "create_link"
  /\ ~CreateLinkInput(q)
  /\ \E sc \in FormRejection : Respond(r, q, "", sc)
  /\ UNCHANGED <<links, seq, idle>>

(* ------------------------- handlers on the store ----------------------- *)

\* let conn = pool.get()?;  first statement of the four store handlers.
PoolGet(r, q) ==
  /\ Arrives(r)
  /\ Route(q) \in StoreHandlers
  /\ Route(q) = "create_link" => CreateLinkInput(q)
  /\ idle > 0
  /\ idle' = idle - 1
  /\ reqs' = [reqs EXCEPT ![r] = [@ EXCEPT !.pc = "conn", !.req = q,
                                           !.handler = Route(q), !.conn = TRUE]]
  /\ UNCHANGED <<links, seq>>

Running(r, h) == reqs[r].pc = "conn" /\ reqs[r].handler = h

Result(r, sc, loc, body) ==
  reqs' = [reqs EXCEPT ![r] = [@ EXCEPT !.pc = "ret", !.sc = sc, !.location = loc, !.body = body]]

root_handler(r) ==
  /\ Running(r, "root_handler")
  /\ \E rows \in SelectAll(links) : Result(r, OK, "", rows)
  /\ UNCHANGED <<links, seq, idle>>

\* A create that overwrites the target of an existing alias.
create_link_upsert(r) ==
  /\ Running(r, "create_link")
  /\ LET alias == reqs[r].req.alias
         url   == UrlParse(reqs[r].req.target_url)
         id    == NextRowid(links, seq)
     IN  IF UniqueViolation(links, alias)
         THEN /\ links' = {IF l.alias = alias THEN [l EXCEPT !.target_url = url] ELSE l : l \in links}
              /\ seq' = seq
         ELSE /\ links' = InsertRow(links, id, alias, url)
              /\ seq' = id
  /\ Result(r, SEE_OTHER, "/", <<>>)
  /\ UNCHANGED idle

create_link(r) ==
  /\ Running(r, "create_link")
  /\ LET alias == reqs[r].req.alias
         url   == UrlParse(reqs[r].req.target_url)
         id    == NextRowid(links, seq)
     IN  IF UniqueViolation(links, alias)
         THEN /\ Result(r, handle_sqlite_err("ConstraintViolation"), "", <<>>)
              /\ UNCHANGED <<links, seq>>
         ELSE /\ links' = InsertRow(links, id, alias, url)
              /\ seq' = id
              /\ Result(r, SEE_OTHER, "/", <<>>)
  /\ UNCHANGED idle

delete_link(r) ==
  /\ Running(r, "delete_link")
  /\ links' = DeleteById(links, reqs[r].req.id)
  /\ Result(r, OK, "", <<>>)
  /\ UNCHANGED <<seq, idle>>

redirect_to_target(r) ==
  /\ Running(r, "redirect_to_target")
  /\ LET found == FindByAlias(links, reqs[r].req.seg)
     IN  IF found = {}
         THEN Result(r, handle_sqlite_err("QueryReturnedNoRows"), "", <<>>)
         ELSE \E l \in found : Result(r, SEE_OTHER, UrlParse(l.target_url), <<>>)
  /\ UNCHANGED <<links, seq, idle>>

\* A finished request: its handler's frame is gone.
Done == [NewReq EXCEPT !.pc = "done"]

\* A return that gives the connection back only on the success path.
ReturnLeakOnError(r) ==
  /\ reqs[r].pc = "ret"
  /\ IF reqs[r].conn /\ reqs[r].sc < BAD_REQUEST
     THEN /\ reqs' = [reqs EXCEPT ![r] = Done]
          /\ idle' = idle + 1
     ELSE /\ reqs' = [reqs EXCEPT ![r] = [Done EXCEPT !.conn = reqs[r].conn]]
          /\ UNCHANGED idle
  /\ UNCHANGED <<links, seq>>

\* The handler returns and the response is sent; a conn the handler holds
\* goes out of scope and is put back in the pool.
Return(r) ==
  /\ reqs[r].pc = "ret"
  /\ reqs' = [reqs EXCEPT ![r] = Done]
  /\ idle' = IF reqs[r].conn THEN idle + 1 ELSE idle
  /\ UNCHANGED <<links, seq>>

Next ==
  \/ \E r \in ReqIds, q \in Requests : favicon(r, q)
  \/ \E r \in ReqIds, q \in Requests : RejectForm(r, q)
  \/ \E r \in ReqIds, q \in Requests : PoolGet(r, q)
  \/ \E r \in ReqIds : root_handler(r)
  \/ \E r \in ReqIds : create_link(r)
  \/ \E r \in ReqIds : delete_link(r)
  \/ \E r \in ReqIds : redirect_to_target(r)
  \/ \E r \in ReqIds : Return(r)

Spec == Init /\ [][Next]_vars

(* ======================== properties of the code ====================== *)

\* The step in which request r gets its response.
Answered(r) == reqs[r].pc # "ret" /\ reqs'[r].pc = "ret"

\* The step in which handler h of request r runs its SQL statement.
Executes(r, h) == Running(r, h) /\ reqs'[r].pc = "ret"

Stored(rows, alias) == \E l \in rows : l.alias = alias

AtRet(r, h) == reqs[r].pc = "ret" /\ reqs[r].handler = h

\* C1: a create whose alias is already stored is answered 400 and leaves the
\* table and the id sequence as they were: still one row for that alias.
C1_DuplicateAliasIs400 ==
  [][\A r \in ReqIds :
       (Executes(r, "create_link") /\ Stored(links, reqs[r].req.alias)) =>
         /\ reqs'[r].sc = BAD_REQUEST
         /\ links' = links
         /\ seq' = seq
         /\ Cardinality({l \in links' : l.alias = reqs[r].req.alias}) = 1]_vars

C1_Witness ==
  \E r \in ReqIds :
    /\ AtRet(r, "create_link")
    /\ reqs[r].sc = BAD_REQUEST
    /\ Cardinality({l \in links : l.alias = reqs[r].req.alias}) = 1

\* C2 (as claimed): once an alias is stored, GET /{alias} is answered with a
\* redirect, and its destination is the target_url string of the create
\* request that stored it (here: of the successful create for that alias
\* that has not returned yet and made the only insert so far).
C2_RoundTripAsClaimed ==
  [][\A g \in ReqIds :
       (/\ Answered(g)
        /\ reqs'[g].req.method = "GET"
        /\ reqs'[g].req.seg # ""
        /\ Stored(links, reqs'[g].req.seg)) =>
         /\ reqs'[g].sc = SEE_OTHER
         /\ \A c \in ReqIds :
              (/\ AtRet(c, "create_link")
               /\ reqs[c].sc = SEE_OTHER
               /\ reqs[c].req.alias = reqs'[g].req.seg
               /\ seq = 1) =>
                reqs'[g].location = reqs[c].req.target_url]_vars

\* C3 (as claimed): GET /{alias} for an alias that is not stored is answered
\* 404 and changes nothing.
C3_UnknownAliasIs404AsClaimed ==
  [][\A g \in ReqIds :
       (/\ Answered(g)
        /\ reqs'[g].req.method = "GET"
        /\ reqs'[g].req.seg # ""
        /\ ~Stored(links, reqs'[g].req.seg)) =>
         /\ reqs'[g].sc = NOT_FOUND
         /\ links' = links
         /\ seq' = seq]_vars

\* C3 (amended): GET /{alias} for an alias that is not stored and that the
\* route table gives to redirect_to_target (any segment but favicon.ico and
\* links) is answered 404 and changes nothing; the match is case-sensitive.
\* GET /favicon.ico is answered 204 whatever is stored.
C3_UnknownAliasIs404 ==
  [][\A g \in ReqIds :
       /\ (/\ Answered(g)
           /\ reqs'[g].req.method = "GET"
           /\ reqs'[g].req.seg \notin {"", "favicon.ico", "links"}
           /\ ~Stored(links, reqs'[g].req.seg)) =>
            /\ reqs'[g].sc = NOT_FOUND
            /\ links' = links
            /\ seq' = seq
       /\ (/\ Answered(g)
           /\ reqs'[g].req.method = "GET"
           /\ reqs'[g].req.seg = "favicon.ico") =>
            /\ reqs'[g].sc = NO_CONTENT
            /\ links' = links
            /\ seq' = seq]_vars

C3_Witness ==
  \E g \in ReqIds :
    /\ AtRet(g, "redirect_to_target")
    /\ reqs[g].sc = NOT_FOUND
    /\ reqs[g].req.seg = "A"
    /\ Stored(links, "a")
    /\ ~Stored(links, "A")

\* C4: DELETE /links/{id} is answered with success; it removes the row with
\* that id and no other, changes nothing when no row has the id, and doing
\* it again changes nothing more.  A list never shows a row that is not in
\* the table.
C4_DeleteById ==
  [][\A r \in ReqIds :
       /\ Executes(r, "delete_link") =>
            /\ reqs'[r].sc = OK
            /\ links' = {l \in links : l.id # reqs[r].req.id}
            /\ seq' = seq
            /\ (reqs[r].req.id \notin Ids(links) => links' = links)
            /\ {l \in links' : l.id # reqs[r].req.id} = links'
       /\ Executes(r, "root_handler") =>
            \A i \in DOMAIN reqs'[r].body : reqs'[r].body[i] \in links]_vars

C4_Witness ==
  \E r \in ReqIds :
    /\ AtRet(r, "delete_link")
    /\ reqs[r].sc = OK
    /\ reqs[r].req.id <= seq
    /\ reqs[r].req.id \notin Ids(links)
    /\ links # {}

\* C5 (as claimed): a create whose target_url does not parse is answered 400
\* and changes neither the table nor the id sequence.
C5_InvalidUrlIs400AsClaimed ==
  [][\A r \in ReqIds :
       (/\ Answered(r)
        /\ reqs'[r].req.method = "POST"
        /\ UrlParse(reqs'[r].req.target_url) = ParseError) =>
         /\ reqs'[r].sc = BAD_REQUEST
         /\ links' = links
         /\ seq' = seq]_vars

C7_LinkImmutable ==
  [][\A l \in links : \A m \in links' : l.id = m.id => m = l]_vars

C7_Witness ==
  \E r \in ReqIds : \E l \in links :
    /\ AtRet(r, "create_link")
    /\ reqs[r].sc = BAD_REQUEST
    /\ reqs[r].req.alias = l.alias
    /\ UrlParse(reqs[r].req.target_url) # l.target_url

AliasUnique(rows) == \A l, m \in rows : l.alias = m.alias => l = m

\* C8: no two rows ever share an alias.  Of the creates for one alias, one
\* that finds the alias absent inserts exactly one row; one that finds it
\* present, for instance just inserted by a concurrent create that still
\* holds its connection, ends in an error and inserts nothing.
C8_AliasUnique ==
  [][/\ AliasUnique(links)
     /\ AliasUnique(links')
     /\ \A r \in ReqIds :
          Executes(r, "create_link") =>
            LET a == reqs[r].req.alias
            IN  /\ Stored(links, a) =>
                     /\ reqs'[r].sc >= BAD_REQUEST
                     /\ links' = links
                /\ ~Stored(links, a) =>
                     /\ reqs'[r].sc = SEE_OTHER
                     /\ \E m \in links' :
                          /\ m \notin links
                          /\ m.alias = a
                          /\ links' = links \cup {m}]_vars

C8_Witness ==
  \E r, c \in ReqIds :
    /\ AtRet(r, "create_link")
    /\ AtRet(c, "create_link")
    /\ reqs[r].req.alias = reqs[c].req.alias
    /\ reqs[r].sc = SEE_OTHER
    /\ reqs[c].sc = BAD_REQUEST
    /\ Cardinality({l \in links : l.alias = reqs[r].req.alias}) = 1

Holding == {r \in ReqIds : reqs[r].conn}

\* C9: a request holds a connection exactly from its handler's pool.get()
\* to its return, on every path; only the four store handlers hold one;
\* connections out plus connections idle is the pool size, so at most the
\* pool size are out, and all are idle when no request is in flight.
C9_PoolScoped ==
  /\ idle \in 0..MaxSize
  /\ idle + Cardinality(Holding) = MaxSize
  /\ \A r \in ReqIds :
       reqs[r].conn <=> (reqs[r].pc \in {"conn", "ret"} /\ reqs[r].handler \in StoreHandlers)
  /\ (\A r \in ReqIds : reqs[r].pc \in {"new", "done"}) => idle = MaxSize

C9_Witness ==
  /\ idle = 0
  /\ \E r, w \in ReqIds :
       /\ reqs[r].pc = "ret"
       /\ reqs[r].conn
       /\ reqs[r].sc = NOT_FOUND
       /\ reqs[w].pc = "new"

\* C10: every id in the table is at most the recorded sequence value, the
\* sequence never decreases, and a row that a step adds has an id greater
\* than every id assigned before, deleted rows included.
C10_IdsNeverReused ==
  [][/\ \A l \in links : l.id <= seq
     /\ seq' >= seq
     /\ \A m \in links' \ links : m.id > seq /\ m.id <= seq'
     /\ \A r \in ReqIds :
          (Executes(r, "delete_link") /\ reqs[r].req.id \notin Ids(links)) =>
            links' = links]_vars

C10_Witness ==
  /\ seq = 2
  /\ Ids(links) = {2}
  /\ \E r \in ReqIds : AtRet(r, "create_link") /\ reqs[r].sc = SEE_OTHER


=============================================================================
